---- MODULE Spec2Model ----
(***************************************************************************)
(* temp_replace.py: a one-shot patch script.  It reads one text file,      *)
(* finds the first start_marker, finds the first end_marker at or after    *)
(* it, and overwrites the file with the span between them replaced by      *)
(* new_replacement.  Documents are TLC strings (Len, \o and SubSeq work on *)
(* them character by character), the three literals are the script's own.  *)
(***************************************************************************)
EXTENDS Integers, Sequences, FiniteSets, TLC

VARIABLES
    file,         \* the characters of client/pages/Index.tsx on disk
    content,      \* line 6
    start_pos,    \* line 111
    end_pos,      \* line 116
    old_content,  \* line 122
    new_content,  \* line 128
    handles,      \* the handles on the file that are open: a subset of {"r", "w"}
    out,          \* what was printed, in order: <<"print", text>> or <<"print_repr", text>>
    error,        \* "none", "SystemExit" (exit(1)) or "OSError" (a propagated I/O exception)
    exit_status,  \* <<>> while the process runs, <<code>> once it ended
    pc,           \* the statement the process is at
    runs,         \* how many times the script was started
    prev,         \* history: the file when the current run started
    wopened,      \* history: the current run opened the file for writing
    log           \* history: <<>>, or the record of the run before the current one

vars == <<file, content, start_pos, end_pos, old_content, new_content, handles,
          out, error, exit_status, pc, runs, prev, wopened, log>>

\* ---------------------------------------------------------------- bounds

\* A document is the concatenation of at most MaxFrags fragments.
MaxFrags == 4

\* The script is started at most MaxRuns times on the same file.
MaxRuns == 2

\* ------------------------------------------------------- the script's literals

start_marker ==
    "                    <div className=\"relative flex-1 lg:max-w-xs w-full lg:w-auto\">\n"
 \o "                      <label className=\"absolute -top-2 left-3 bg-white px-1 text-xs text-gray-600 font-medium z-10\">\n"
 \o "                        Going to\n"
 \o "                      </label>"

end_marker ==
    "                      )}\n"
 \o "                    </div>\n"
 \o "\n"
 \o "                    <div className=\"relative overflow-visible lg:max-w-[250px] w-full lg:w-auto\">"

new_replacement_keepsLabel ==
    start_marker \o "\n"
 \o "                      <CityAutocomplete\n"
 \o "                      />\n"
 \o "                    </div>"
new_replacement ==
    "                    <div className=\"relative flex-1 lg:max-w-xs w-full lg:w-auto\">\n"
 \o "                      <CityAutocomplete\n"
 \o "                        label=\"Going to\"\n"
 \o "                        placeholder=\"City or airport\"\n"
 \o "                        value={toAirport}\n"
 \o "                        onChange={setToAirport}\n"
 \o "                        fetchOptions={searchAirportsWithFallback}\n"
 \o "                        icon={<Plane className=\"w-4 h-4\" />}\n"
 \o "                        className=\"relative\"\n"
 \o "                      />\n"
 \o "                    </div>"

\* The two literals whose lengths are added to end_pos on line 128.
CloseBraceLine == "                      )}"
CloseDivLine == "\n                    </div>\n"

\* What str.find returns when the substring is absent.
NotFound == -1

\* ------------------------------------------------------------ str and slices

Min(S) == CHOOSE x \in S : \A y \in S : x <= y
Max(S) == CHOOSE x \in S : \A y \in S : x >= y

\* s[a:b] for 0 <= a, 0 <= b: Python clamps both ends to len(s).
Slice(s, a, b) ==
    LET hi == IF b > Len(s) THEN Len(s) ELSE b
    IN  IF a >= hi THEN "" ELSE SubSeq(s, a + 1, hi)

\* s[a:]
SliceFrom(s, a) == Slice(s, a, Len(s))

\* s[:b]
SliceTo(s, b) == Slice(s, 0, b)

\* s.find(sub, start): the lowest index >= start at which sub occurs, else -1.
find(s, sub, start) ==
    LET hits == {i \in start..(Len(s) - Len(sub)) : SubSeq(s, i + 1, i + Len(sub)) = sub}
    IN  IF hits = {} THEN NotFound ELSE Min(hits)

\* s.rfind(sub): the highest index at which sub occurs, else -1.
rfind(s, sub) ==
    LET hits == {i \in 0..(Len(s) - Len(sub)) : SubSeq(s, i + 1, i + Len(sub)) = sub}
    IN  IF hits = {} THEN NotFound ELSE Max(hits)

\* ------------------------------------------------------------ the expressions

StartPos_last(c) == rfind(c, start_marker)
\* line 111
StartPos(c) == find(c, start_marker, 0)

EndPos_unanchored(c, sp) == find(c, end_marker, 0)
\* line 116
EndPos(c, sp) == find(c, end_marker, sp)

\* line 122
OldContent(c, sp, ep) == Slice(c, sp, ep + Len(CloseBraceLine))

NewContent_wholeMarker(c, sp, ep) ==
    SliceTo(c, sp) \o new_replacement \o SliceFrom(c, ep + Len(end_marker))
NewContent_braceOnly(c, sp, ep) ==
    SliceTo(c, sp) \o new_replacement \o SliceFrom(c, ep + Len(CloseBraceLine))
NewContent_pastMarker(c, sp, ep) ==
    SliceTo(c, sp) \o new_replacement
        \o SliceFrom(c, ep + Len(end_marker) + Len(CloseDivLine))
\* line 128
NewContent(c, sp, ep) ==
    SliceTo(c, sp) \o new_replacement
        \o SliceFrom(c, ep + Len(CloseBraceLine) + Len(CloseDivLine))

\* ------------------------------------------------------------------ inputs

\* The pieces documents are built from: both markers, the line start_marker and
\* new_replacement share, and a line break.
SharedFirstLine ==
    "                    <div className=\"relative flex-1 lg:max-w-xs w-full lg:w-auto\">\n"

Fragments == {start_marker, end_marker, SharedFirstLine, "\n"}

RECURSIVE DocsOfLen(_)
DocsOfLen(n) ==
    IF n = 0 THEN {""} ELSE {d \o f : d \in DocsOfLen(n - 1), f \in Fragments}

Documents == UNION {DocsOfLen(n) : n \in 0..MaxFrags}

\* How much of the data reaches the disk when a write fails part-way.
PartialLens(s) == {0, Len(s) \div 2}

\* ------------------------------------------------------------------- state

Init ==
    /\ file \in Documents
    /\ prev = file
    /\ content = ""
    /\ start_pos = NotFound
    /\ end_pos = NotFound
    /\ old_content = ""
    /\ new_content = ""
    /\ handles = {}
    /\ out = <<>>
    /\ error = "none"
    /\ exit_status = <<>>
    /\ pc = "open_r"
    /\ runs = 1
    /\ wopened = FALSE
    /\ log = <<>>

\* An exception leaves the with block (its __exit__ closes the handle) and,
\* uncaught, ends the process with status 1.
Raise(e) ==
    /\ error' = e
    /\ exit_status' = <<1>>
    /\ handles' = {}
    /\ pc' = "done"

\* line 5: open(..., 'r')
OpenRead ==
    /\ pc = "open_r"
    /\ \/ /\ handles' = handles \cup {"r"}
          /\ pc' = "read"
          /\ UNCHANGED <<error, exit_status>>
       \/ Raise("OSError")
    /\ UNCHANGED <<file, content, start_pos, end_pos, old_content, new_content,
                   out, runs, prev, wopened, log>>

\* line 6: content = f.read()
ReadAll ==
    /\ pc = "read"
    /\ \/ /\ content' = file
          /\ pc' = "close_r"
          /\ UNCHANGED <<handles, error, exit_status>>
       \/ /\ Raise("OSError")
          /\ UNCHANGED content
    /\ UNCHANGED <<file, start_pos, end_pos, old_content, new_content,
                   out, runs, prev, wopened, log>>

CloseRead_leak ==
    /\ pc = "close_r"
    /\ pc' = "find_start"
    /\ UNCHANGED <<file, content, start_pos, end_pos, old_content, new_content,
                   handles, out, error, exit_status, runs, prev, wopened, log>>
\* lines 5-6: the end of the with block
CloseRead ==
    /\ pc = "close_r"
    /\ handles' = handles \ {"r"}
    /\ pc' = "find_start"
    /\ UNCHANGED <<file, content, start_pos, end_pos, old_content, new_content,
                   out, error, exit_status, runs, prev, wopened, log>>

\* lines 111-114
FindStart ==
    /\ pc = "find_start"
    /\ start_pos' = StartPos(content)
    /\ IF start_pos' = NotFound
       THEN /\ out' = Append(out, <<"print", "Start marker not found">>)
            /\ error' = "SystemExit"
            /\ exit_status' = <<1>>
            /\ pc' = "done"
       ELSE /\ pc' = "find_end"
            /\ UNCHANGED <<out, error, exit_status>>
    /\ UNCHANGED <<file, content, end_pos, old_content, new_content, handles,
                   runs, prev, wopened, log>>

FindEnd_noExit ==
    /\ pc = "find_end"
    /\ end_pos' = EndPos(content, start_pos)
    /\ IF end_pos' = NotFound
       THEN out' = Append(out, <<"print", "End marker not found">>)
       ELSE UNCHANGED out
    /\ pc' = "extract"
    /\ UNCHANGED <<file, content, start_pos, old_content, new_content, handles,
                   error, exit_status, runs, prev, wopened, log>>
\* lines 116-119
FindEnd ==
    /\ pc = "find_end"
    /\ end_pos' = EndPos(content, start_pos)
    /\ IF end_pos' = NotFound
       THEN /\ out' = Append(out, <<"print", "End marker not found">>)
            /\ error' = "SystemExit"
            /\ exit_status' = <<1>>
            /\ pc' = "done"
       ELSE /\ pc' = "extract"
            /\ UNCHANGED <<out, error, exit_status>>
    /\ UNCHANGED <<file, content, start_pos, old_content, new_content, handles,
                   runs, prev, wopened, log>>

\* lines 122-125
Extract ==
    /\ pc = "extract"
    /\ old_content' = OldContent(content, start_pos, end_pos)
    /\ out' = out \o << <<"print", "Found content to replace:">>,
                        <<"print_repr", Slice(old_content', 0, 200) \o "...">> >>
    /\ pc' = "splice"
    /\ UNCHANGED <<file, content, start_pos, end_pos, new_content, handles,
                   error, exit_status, runs, prev, wopened, log>>

\* line 128
Splice ==
    /\ pc = "splice"
    /\ new_content' = NewContent(content, start_pos, end_pos)
    /\ pc' = "open_w"
    /\ UNCHANGED <<file, content, start_pos, end_pos, old_content, handles, out,
                   error, exit_status, runs, prev, wopened, log>>

\* line 131: open(..., 'w') truncates the file as it opens it
OpenWrite ==
    /\ pc = "open_w"
    /\ \/ /\ handles' = handles \cup {"w"}
          /\ file' = ""
          /\ wopened' = TRUE
          /\ pc' = "write"
          /\ UNCHANGED <<error, exit_status>>
       \/ /\ Raise("OSError")
          /\ UNCHANGED <<file, wopened>>
    /\ UNCHANGED <<content, start_pos, end_pos, old_content, new_content, out,
                   runs, prev, log>>

\* line 132: f.write(new_content), with the flush that puts it on disk
WriteAll ==
    /\ pc = "write"
    /\ \/ /\ file' = new_content
          /\ pc' = "close_w"
          /\ UNCHANGED <<handles, error, exit_status>>
       \/ /\ \E n \in PartialLens(new_content) : file' = SliceTo(new_content, n)
          /\ Raise("OSError")
    /\ UNCHANGED <<content, start_pos, end_pos, old_content, new_content, out,
                   runs, prev, wopened, log>>

\* lines 131-132: the end of the with block
CloseWrite ==
    /\ pc = "close_w"
    /\ handles' = handles \ {"w"}
    /\ pc' = "report"
    /\ UNCHANGED <<file, content, start_pos, end_pos, old_content, new_content,
                   out, error, exit_status, runs, prev, wopened, log>>

\* line 134, then the end of the script
Report ==
    /\ pc = "report"
    /\ out' = Append(out, <<"print", "Replacement completed successfully!">>)
    /\ exit_status' = <<0>>
    /\ pc' = "done"
    /\ UNCHANGED <<file, content, start_pos, end_pos, old_content, new_content,
                   handles, error, runs, prev, wopened, log>>

\* The script is started again on the file the last run left: a new process,
\* with none of the names bound.
Rerun ==
    /\ pc = "done"
    /\ runs < MaxRuns
    /\ log' = << [before |-> prev, after |-> file, status |-> exit_status] >>
    /\ runs' = runs + 1
    /\ prev' = file
    /\ content' = ""
    /\ start_pos' = NotFound
    /\ end_pos' = NotFound
    /\ old_content' = ""
    /\ new_content' = ""
    /\ out' = <<>>
    /\ error' = "none"
    /\ exit_status' = <<>>
    /\ wopened' = FALSE
    /\ pc' = "open_r"
    /\ UNCHANGED <<file, handles>>

Next ==
    \/ OpenRead
    \/ ReadAll
    \/ CloseRead
    \/ FindStart
    \/ FindEnd
    \/ Extract
    \/ Splice
    \/ OpenWrite
    \/ WriteAll
    \/ CloseWrite
    \/ Report
    \/ Rerun

Spec == Init /\ [][Next]_vars

\* ------------------------------------------------------------------ claims

\* sub occurs in s at index i (0-based, as str.find counts).
Occurs(s, sub, i) ==
    /\ i >= 0
    /\ i + Len(sub) <= Len(s)
    /\ SubSeq(s, i + 1, i + Len(sub)) = sub

\* Every index at which sub occurs in s.
Occurrences(s, sub) ==
    LET n == Len(sub)
        last == Len(s) - n
    IN  {i \in 0..last : SubSeq(s, i + 1, i + n) = sub}

\* i is the least index >= from at which sub occurs in s.
IsFirstFrom(s, sub, from, i) ==
    /\ i >= from
    /\ Occurs(s, sub, i)
    /\ \A k \in from..(i - 1) : ~Occurs(s, sub, k)

\* The characters line 128 drops after end_pos.
Removed == Len(CloseBraceLine) + Len(CloseDivLine)

\* The run ended with status 0.
Success == pc = "done" /\ exit_status = <<0>>

\* The write of line 132 is complete.
Written == pc \in {"close_w", "report"} \/ Success

\* Both markers were found by the current run.
BothFound == pc \in {"extract", "splice", "open_w", "write", "close_w", "report"} \/ wopened

PrintedOnly(text) == out = << <<"print", text>> >>

\* C1 as stated: with S first at i and E first at j >= i, the run writes
\* D[0:i] + R + D[j+len(E)+t:] for a trailer t >= 0 beyond the whole end-marker match.
C1_WholeMarkerRemoved ==
    LET so == Occurrences(prev, start_marker)
        eo == Occurrences(prev, end_marker)
    IN  (Success /\ so # {} /\ eo # {} /\ Min(eo) >= Min(so)) =>
            \E t \in 0..Len(prev) :
                file = SliceTo(prev, Min(so)) \o new_replacement
                          \o SliceFrom(prev, Min(eo) + Len(end_marker) + t)

\* C1 amended: with S first at i and E first at j >= i, a run that ends with
\* status 0 has written D[0:i] + R + D[j+k:], where k = len(the ")}" line) +
\* len(the "</div>" line) is less than len(E): only the first k characters of the
\* end-marker match are removed.
C1_FoundAndSpliced ==
    LET so == Occurrences(prev, start_marker)
        eo == Occurrences(prev, end_marker)
    IN  (Success /\ so # {} /\ eo # {} /\ Min(eo) >= Min(so)) =>
            /\ Removed < Len(end_marker)
            /\ file = SliceTo(prev, Min(so)) \o new_replacement
                         \o SliceFrom(prev, Min(eo) + Removed)

C1_Witness ==
    /\ Success
    /\ Occurrences(prev, start_marker) # {}
    /\ Occurrences(prev, end_marker) # {}
    /\ Min(Occurrences(prev, end_marker)) > Min(Occurrences(prev, start_marker))
    /\ Len(file) > Min(Occurrences(prev, start_marker)) + Len(new_replacement)

\* C2: whenever both markers are found, the document written is
\* document[0:start_pos] + new_replacement + document[end_pos + trailer_len:],
\* start_pos the first match of start_marker, end_pos the first match of end_marker
\* at or after start_pos, trailer_len the same constant for every document.
C2_OutputInvariant ==
    Written =>
        /\ IsFirstFrom(prev, start_marker, 0, start_pos)
        /\ IsFirstFrom(prev, end_marker, start_pos, end_pos)
        /\ new_content = SliceTo(prev, start_pos) \o new_replacement
                            \o SliceFrom(prev, end_pos + Removed)
        /\ file = new_content
        /\ Len(file) = Len(prev) - (end_pos + Removed - start_pos) + Len(new_replacement)

C2_Witness ==
    /\ Written
    /\ start_pos > 0
    /\ end_pos > start_pos + Len(start_marker)
    /\ Occurrences(prev, end_marker) \cap 0..(start_pos - 1) # {}

\* The marker search of document D fails: no start marker, or no end marker at or
\* after the first start marker.
MarkerFailure(D) ==
    LET so == Occurrences(D, start_marker)
        first == Min(so)
    IN  \/ so = {}
        \/ \A j \in Occurrences(D, end_marker) : j < first

\* C3: when the start marker is absent, or the end marker does not occur at or after
\* start_pos, the run never opens the file for writing and leaves it as it was; it
\* ends with status 1 having printed which marker failed, the start marker first.
\* (The first conjunct is the contrapositive: a state in which the file differs, a
\* write handle was opened or the script is past the searches is not a marker failure.)
C3_NoOpOnMarkerFailure ==
    /\ (\/ file # prev
        \/ wopened
        \/ "w" \in handles
        \/ pc \in {"extract", "splice", "open_w", "write", "close_w", "report"})
           => ~MarkerFailure(prev)
    /\ (pc = "done" /\ MarkerFailure(prev)) =>
           /\ exit_status = <<1>>
           /\ error = "SystemExit" =>
                 IF Occurrences(prev, start_marker) = {}
                 THEN PrintedOnly("Start marker not found")
                 ELSE PrintedOnly("End marker not found")

C3_Witness ==
    /\ pc = "done"
    /\ error = "SystemExit"
    /\ Occurrences(prev, start_marker) # {}
    /\ Occurrences(prev, end_marker) # {}
    /\ PrintedOnly("End marker not found")
    /\ file = prev

\* C4: if the start marker occurs at i1 < i2, the splice begins at i1 and never at
\* i2, wherever the end marker is; the text before i1 is kept.
C4_FirstStartOccurrence ==
    LET so == Occurrences(prev, start_marker)
    IN  ((BothFound \/ pc = "find_end" \/ Success) /\ Cardinality(so) >= 2) =>
            /\ start_pos = Min(so)
            /\ \A i2 \in so \ {Min(so)} : start_pos # i2
            /\ Written =>
                  /\ SliceTo(file, Min(so)) = SliceTo(prev, Min(so))
                  /\ Slice(file, Min(so), Min(so) + Len(new_replacement)) = new_replacement

C4_Witness ==
    LET so == Occurrences(prev, start_marker)
    IN  /\ Success
        /\ Cardinality(so) >= 2
        /\ Min(so) > 0
        /\ \A j \in Occurrences(prev, end_marker) : j > Max(so)

\* C5: end_pos is the least index >= start_pos at which the end marker occurs; an
\* occurrence before start_pos is never selected, later occurrences are intact in
\* the output, and with occurrences only before start_pos the run ends with
\* "End marker not found".
C5_EndAnchoredAtStart ==
    LET eo == Occurrences(prev, end_marker)
        so == Occurrences(prev, start_marker)
    IN  /\ (BothFound \/ Success) =>
              /\ IsFirstFrom(content, end_marker, start_pos, end_pos)
              /\ \A k \in eo : k < start_pos => end_pos # k
        /\ Written =>
              \A k \in eo : k > end_pos =>
                  Occurs(file, end_marker,
                         k - (end_pos + Removed) + start_pos + Len(new_replacement))
        /\ (pc = "done" /\ error # "OSError" /\ so # {} /\ \A k \in eo : k < Min(so)) =>
              /\ error = "SystemExit"
              /\ PrintedOnly("End marker not found")
              /\ end_pos = NotFound

C5_Witness ==
    /\ Success
    /\ \E k \in Occurrences(prev, end_marker) : k < start_pos
    /\ \E k \in Occurrences(prev, end_marker) : k > end_pos
    /\ Cardinality(Occurrences(file, end_marker)) >= 2

\* The splice end of line 128 lies strictly inside the document in every run that
\* reaches it: neither "equal to len(document)" nor "past len(document)" happens.
SpliceEndInsideDocument ==
    (BothFound \/ Success) => end_pos + Removed < Len(content)

\* C7: after a run that ended with an I/O failure the file still holds its complete
\* original content.
C7_NoPartialWrite ==
    (pc = "done" /\ error = "OSError") => file = prev

\* C8: the read handle is released before the search, the write handle is opened
\* only after both positions were found, at most one handle is open at a time, and
\* none is open when the process has ended.
C8_ScopedHandles ==
    /\ Cardinality(handles) <= 1
    /\ pc \in {"find_start", "find_end", "extract", "splice", "open_w"} => handles = {}
    /\ "r" \in handles => pc \in {"read", "close_r"}
    /\ ("w" \in handles \/ wopened) =>
          /\ Occurs(content, start_marker, start_pos)
          /\ Occurs(content, end_marker, end_pos)
    /\ pc = "done" => handles = {}

C8_Witness ==
    /\ pc = "done"
    /\ error = "OSError"
    /\ wopened
    /\ handles = {}

\* C9: the characters removed after end_pos are a proper prefix of the end-marker
\* match, so end_pos + removed <= end_pos + len(end_marker) <= len(document), and
\* what follows new_replacement in the written document is the rest of the match
\* followed by the rest of the document.
C9_RemovedIsProperPrefix ==
    /\ Removed < Len(end_marker)
    /\ SliceTo(end_marker, Removed) = CloseBraceLine \o CloseDivLine
    /\ (BothFound \/ Success) =>
          /\ end_pos + Removed <= end_pos + Len(end_marker)
          /\ end_pos + Len(end_marker) <= Len(content)
    /\ Written =>
          file = SliceTo(prev, start_pos) \o new_replacement
                    \o SliceFrom(end_marker, Removed)
                    \o SliceFrom(prev, end_pos + Len(end_marker))

C9_Witness ==
    /\ Success
    /\ end_pos + Len(end_marker) < Len(prev)
    /\ Slice(file, start_pos + Len(new_replacement),
             start_pos + Len(new_replacement) + Len(end_marker) - Removed)
          = SliceFrom(end_marker, Removed)

\* C10: after a run that ended with status 0 on a document with exactly one start
\* marker, the file holds no start marker, and the next run ends with
\* "Start marker not found", status 1 and the file unchanged.
C10_AppliesAtMostOnce ==
    \A r \in 1..Len(log) :
        (/\ log[r].status = <<0>>
         /\ Cardinality(Occurrences(log[r].before, start_marker)) = 1) =>
            /\ Occurrences(log[r].after, start_marker) = {}
            /\ r = Len(log) =>
                  /\ prev = log[r].after
                  /\ file = prev
                  /\ pc \in {"open_r", "read", "close_r", "find_start", "done"}
                  /\ (pc = "done" /\ error # "OSError") =>
                        /\ PrintedOnly("Start marker not found")
                        /\ exit_status = <<1>>

C10_Witness ==
    /\ Len(log) >= 1
    /\ log[Len(log)].status = <<0>>
    /\ Cardinality(Occurrences(log[Len(log)].before, start_marker)) = 1
    /\ pc = "done"
    /\ PrintedOnly("Start marker not found")
    /\ file = log[Len(log)].after

====
